---- MODULE Spec2Model ----
(***************************************************************************)
(* Model of the collaboration backend (backend-collaboration): the         *)
(* SessionManager (app/session_manager.py), the HTTP routes and the        *)
(* Socket.IO event handlers (app/routes.py) and the response envelope      *)
(* (app/utils/response.py).                                                *)
(*                                                                         *)
(* The Y document (y_py) is modelled as a CRDT: a set of integrated        *)
(* structs <<client, clock>> plus the structs that wait for a missing      *)
(* predecessor.  Updates and state vectors travel as byte sequences, and   *)
(* over the wire either as a byte string or as a list of integers.         *)
(***************************************************************************)
EXTENDS Integers, Sequences, FiniteSets, TLC

\* ------------------------------------------------------------------ bounds
NConns == 2
NSessions == 2
\* the sessions that the synchronisation runs exchange documents of
NSyncSessions == 1
NUsers == 2
MaxEdits == 2
\* the edits a client makes in the fan-out runs
MaxFanoutEdits == 1
MaxInbox == 1
MaxMerges == 3
MaxChats == 1
\* the threads that call into the SessionManager at the same time
NThreads == 2

\* the client addresses that send HTTP requests
NAddrs == 2
\* rate_limit(requests, window): the calls allowed per window, and the
\* window in seconds (join_session is decorated with requests=10, window=60;
\* the runs use small values)
Requests == 2
Window == 2
\* the instants of time.time() told apart within one second
TicksPerSecond == 2
\* the last instant of the clock
MaxTicks == 5

\* default of data.get('maxParticipants', 4)
DefaultMaxParticipants == 4

Conns == 1..NConns
SessionIds == 1..NSessions
Users == 1..NUsers
Threads == 1..NThreads
Addrs == 1..NAddrs

\* data.get('session_id') of an event that carries none
NoneId == 0
EventSessionIds == SessionIds \cup {NoneId}
SyncSessionIds == 1..NSyncSessions
SyncEventSessionIds == SyncSessionIds \cup {NoneId}
\* skip_sid of an emit that excludes nobody
NoConn == 0

\* ------------------------------------------------------------------ bytes
\* A payload as it arrives in an event: a byte string, a list of integers
\* (the JSON form), or nothing (data.get returned None).
NoneWire == [form |-> "none", v |-> <<>>]
BytesWire(b) == [form |-> "bytes", v |-> b]
ListWire(l) == [form |-> "list", v |-> l]

\* faulty variant of Falsy: a test for None alone (`x is None`)
FalsyNoneOnly(w) == w.form = "none"

\* `not x` of Python for a payload: None, b'' and [] are falsy
Falsy(w) == w.form = "none" \/ Len(w.v) = 0

\* bytes(list) raises ValueError unless every element is in range(256)
BytesRaises(w) == w.form = "list" /\ \E i \in 1..Len(w.v) : w.v[i] \notin 0..255

\* the value after `if isinstance(x, list): x = bytes(x)`
ToBytes(w) == w.v

\* list(bytes): the integers of the byte string, as a list
ToList(b) == ListWire([i \in 1..Len(b) |-> b[i]])

SetMin(S) == CHOOSE m \in S : \A x \in S : m <= x

RECURSIVE SortedSeq(_)
SortedSeq(S) == IF S = {} THEN <<>>
                ELSE <<SetMin(S)>> \o SortedSeq(S \ {SetMin(S)})

\* One struct of a document: <<client id, clock>>, one byte on the wire.
StructCode(x) == 16 * x[1] + x[2]
CodeStruct(n) == <<n \div 16, n % 16>>

\* The update encoding: the number of structs, then the structs in order.
EncodeUpdate(S) == <<Cardinality(S)>> \o SortedSeq({StructCode(x) : x \in S})

WellFormedUpdate(b) ==
    /\ Len(b) >= 1
    /\ b[1] = Len(b) - 1
    /\ \A i \in 2..Len(b) : b[i] \in 16..255
    /\ \A i \in 2..(Len(b) - 1) : b[i] < b[i + 1]

DecodeUpdate(b) == {CodeStruct(b[i]) : i \in 2..Len(b)}

\* The state vector encoding: the number of clients, then (client, clock) pairs.
WellFormedSV(b) ==
    /\ Len(b) >= 1
    /\ Len(b) = 1 + 2 * b[1]
    /\ \A i \in 2..Len(b) : b[i] \in 0..255
    /\ \A i \in 1..(b[1] - 1) : b[2 * i] < b[2 * i + 2]

SVClock(b, client) ==
    IF \E i \in 1..b[1] : b[2 * i] = client
    THEN b[2 * (CHOOSE i \in 1..b[1] : b[2 * i] = client) + 1]
    ELSE 0

\* ------------------------------------------------------------------ Y.Doc
EmptyDoc == [structs |-> {}, pending |-> {}]

\* the text of the document: its integrated structs
Content(doc) == doc.structs

Clock(doc, client) == Cardinality({x \in doc.structs : x[1] = client})

\* a struct integrates once its predecessor of the same client is there
Ready(S, x) == x[2] = 0 \/ <<x[1], x[2] - 1>> \in S

RECURSIVE Integrate(_, _)
Integrate(S, P) ==
    LET r == {x \in P \ S : Ready(S, x)}
    IN  IF r = {} THEN [structs |-> S, pending |-> P \ S]
        ELSE Integrate(S \cup r, P \ r)

\* faulty variant of ApplyRaises: a failed merge goes unnoticed
ApplyNeverRaises(b) == FALSE

\* Y.apply_update(txn, update): raises on bytes that are no update
ApplyRaises(b) == ~WellFormedUpdate(b)
ApplyUpdate(doc, b) == Integrate(doc.structs, doc.pending \cup DecodeUpdate(b))

\* Y.encode_state_vector(doc), as a client computes it
RECURSIVE SVPairs(_, _)
SVPairs(doc, cs) ==
    IF cs = {} THEN <<>>
    ELSE <<SetMin(cs), Clock(doc, SetMin(cs))>> \o SVPairs(doc, cs \ {SetMin(cs)})

EncodeStateVector(doc) ==
    LET cs == {x[1] : x \in doc.structs}
    IN  <<Cardinality(cs)>> \o SVPairs(doc, cs)

\* Y.encode_state_as_update(doc): the whole state
EncodeState(doc) == EncodeUpdate(doc.structs \cup doc.pending)

\* Y.encode_state_as_update(doc, state_vector): raises on a malformed vector
DiffRaises(sv) == ~WellFormedSV(sv)
EncodeDiff(doc, sv) ==
    EncodeUpdate({x \in doc.structs : x[2] >= SVClock(sv, x[1])} \cup doc.pending)


\* ------------------------------------------------------------------ state
VARIABLES
    active_sessions,  \* routes.active_sessions: session id -> metadata
    sm_sessions,      \* SessionManager._sessions: session id -> document entry
    connected,        \* the connections the server holds
    rooms,            \* Socket.IO rooms: connection -> the session rooms it is in
    inbox,            \* events emitted to a connection and not yet read by it
    cdoc,             \* the document replica each client keeps
    http_resp,        \* the response of the last HTTP request
    chat_seq,         \* the number of chat ids generated so far
    arrived,          \* history: session id -> the structs of the yjs_update
                      \* events that named it and were merged
    missed,           \* history: session id -> the connections that were not
                      \* sent some update merged into it
    ws_error,         \* the exception the last Socket.IO event handler raised
    lock,             \* SessionManager._lock: the thread that holds it
    thr,              \* thread -> where it is inside a SessionManager method
    created,          \* history: session id -> the number of Y.YDoc() made for it
    req,              \* thread -> where it is inside a request of routes.py
    rl_store,         \* rate_limiting._rate_limit_store: key -> timestamps
    now,              \* time.time(), in ticks
    admitted          \* history: key -> the instants, within the last `window`
                      \* seconds, at which a call was let through to the view

vars == <<active_sessions, sm_sessions, connected, rooms, inbox, cdoc,
          http_resp, chat_seq, arrived, missed, ws_error, lock, thr, created,
          req, rl_store, now, admitted>>

\* the state of the requests that routes.py serves statement by statement
qvars == <<req, rl_store, now, admitted>>

\* the state of the threads inside the SessionManager and inside the requests
tvars == <<lock, thr, created, qvars>>
\* the state the SessionManager's methods do not touch
hvars == <<active_sessions, connected, rooms, inbox, cdoc, http_resp, chat_seq,
           arrived, missed, ws_error, qvars>>

\* nobody holds the lock
NoThread == 0
\* a thread outside the SessionManager
Idle == [pc |-> "idle", op |-> "none", sid |-> 0, doc |-> 0, unseen |-> FALSE]
\* a thread that serves no request
ReqIdle == [pc |-> "idle", addr |-> 0, t0 |-> 0, lst |-> <<>>, user |-> 0, sid |-> 0,
            conn |-> 0]

NoSession == [present |-> FALSE, creator_id |-> 0, max_participants |-> 0,
              participants |-> <<>>, updated_at |-> 0]
NoEntry == [present |-> FALSE, doc |-> EmptyDoc, last_updated |-> 0]
NoResp == [status |-> 0, error |-> "none"]

Init ==
    /\ active_sessions = [s \in SessionIds |-> NoSession]
    /\ sm_sessions = [s \in SessionIds |-> NoEntry]
    /\ connected = {}
    /\ rooms = [c \in Conns |-> {}]
    /\ inbox = [c \in Conns |-> <<>>]
    /\ cdoc = [c \in Conns |-> EmptyDoc]
    /\ http_resp = NoResp
    /\ chat_seq = 0
    /\ arrived = [s \in SessionIds |-> {}]
    /\ missed = [s \in SessionIds |-> {}]
    /\ ws_error = "none"
    /\ lock = NoThread
    /\ thr = [t \in Threads |-> Idle]
    /\ created = [s \in SessionIds |-> 0]
    /\ req = [t \in Threads |-> ReqIdle]
    /\ rl_store = [a \in Addrs |-> <<>>]
    /\ now = 0
    /\ admitted = [a \in Addrs |-> <<>>]

\* ------------------------------------------------------------------ events
\* An emitted event.  origin is a history field: the connection whose event
\* produced it (NoConn for an HTTP request).  n is the participant count of
\* user_joined and user_left and the id of a chat_message.
Msg(type, sid, origin, update, user, n, parts) ==
    [type |-> type, session_id |-> sid, origin |-> origin, update |-> update,
     user_id |-> user, n |-> n, participants |-> parts]

Event(type, sid, origin, user, n, parts) ==
    Msg(type, sid, origin, NoneWire, user, n, parts)

InSeq(x, q) == \E i \in 1..Len(q) : q[i] = x

\* emit(..., to=room, skip_sid=skip): every connection of the room but skip
EmitRoom(ib, rms, room, skip, m) ==
    [d \in Conns |-> IF room \in rms[d] /\ d # skip THEN Append(ib[d], m) ELSE ib[d]]

\* emit(...) inside a handler without `to`: the requesting connection only
EmitSelf(ib, c, m) == [ib EXCEPT ![c] = Append(@, m)]

RoomFits(rms, room, skip) ==
    \A d \in Conns : (room \in rms[d] /\ d # skip) => Len(inbox[d]) < MaxInbox

\* ------------------------------------------------------------------ SessionManager
NewEntry == [present |-> TRUE, doc |-> EmptyDoc, last_updated |-> 0]

\* faulty variant of GetDocSessions: a lookup that creates nothing
GetDocSessionsNoCreate(sm, sid) == sm

\* get_doc: the registry after the call (an entry is created for an unseen id;
\* text.push(txn, "") adds no content)
GetDocSessions(sm, sid) ==
    IF sm[sid].present THEN sm ELSE [sm EXCEPT ![sid] = NewEntry]

GetDoc(sm, sid) == GetDocSessions(sm, sid)[sid].doc

\* faulty variant of SyncStep2: an empty vector gets an empty update
SyncStep2NothingForEmpty(doc, w) ==
    IF Falsy(w) THEN EncodeUpdate({})
    ELSE IF DiffRaises(w.v) THEN EncodeState(doc)
    ELSE EncodeDiff(doc, w.v)

\* faulty variant of SyncStep2: the difference is taken against the
\* server's own state vector instead of the client's
SyncStep2OwnVector(doc, w) ==
    IF Falsy(w) THEN EncodeState(doc)
    ELSE IF DiffRaises(w.v) THEN EncodeState(doc)
    ELSE EncodeDiff(doc, EncodeStateVector(doc))

\* handle_sync_step1: the step 2 bytes for a state vector (bytes or None)
SyncStep2(doc, w) ==
    IF Falsy(w) THEN EncodeState(doc)
    ELSE IF DiffRaises(w.v) THEN EncodeState(doc)
    ELSE EncodeDiff(doc, w.v)

\* faulty variant of ProcessUpdate: the update is applied to a document
\* that is thrown away
ProcessUpdateLost(sm, sid, b) ==
    LET sm1 == GetDocSessions(sm, sid)
    IN  IF ApplyRaises(b) THEN sm1
        ELSE [sm1 EXCEPT ![sid].last_updated = @ + 1]

\* faulty variant of ProcessUpdate: an update the document already holds is
\* recognised as a retry and skipped
ProcessUpdateSkipRetry(sm, sid, b) ==
    LET sm1 == GetDocSessions(sm, sid)
    IN  IF ApplyRaises(b) \/ DecodeUpdate(b) \subseteq sm1[sid].doc.structs THEN sm1
        ELSE [sm1 EXCEPT ![sid].doc = ApplyUpdate(@, b),
                         ![sid].last_updated = @ + 1]

\* faulty variant of ProcessUpdate: one document shared by every session
ProcessUpdateShared(sm, sid, b) ==
    LET sm1 == GetDocSessions(sm, sid)
    IN  IF ApplyRaises(b) THEN sm1
        ELSE [s \in SessionIds |->
                 IF s = sid
                 THEN [sm1[s] EXCEPT !.doc = ApplyUpdate(@, b), !.last_updated = @ + 1]
                 ELSE IF sm1[s].present
                 THEN [sm1[s] EXCEPT !.doc = ApplyUpdate(@, b)]
                 ELSE sm1[s]]

\* faulty variant of ProcessUpdate: a failed merge takes the whole registry
\* down with it
ProcessUpdateCrash(sm, sid, b) ==
    LET sm1 == GetDocSessions(sm, sid)
    IN  IF ApplyRaises(b) THEN [s \in SessionIds |-> NoEntry]
        ELSE [sm1 EXCEPT ![sid].doc = ApplyUpdate(@, b),
                         ![sid].last_updated = @ + 1]

\* process_update: the registry after the call; when apply_update raises the
\* entry get_doc created stays and nothing else changes
ProcessUpdate(sm, sid, b) ==
    LET sm1 == GetDocSessions(sm, sid)
    IN  IF ApplyRaises(b) THEN sm1
        ELSE [sm1 EXCEPT ![sid].doc = ApplyUpdate(@, b),
                         ![sid].last_updated = @ + 1]


\* ------------------------------------------------------------------ response envelope
\* error_response(code, message): the tuple ({'error': code, ...}, 400)
ErrorResponse(code) == [kind |-> "tuple", error |-> code, status |-> 400]

\* what a view returns: a dict, or `error_response(...), status`, a tuple
\* whose first element is the tuple error_response built
ReturnDict == [data |-> [kind |-> "dict", error |-> "none", status |-> 200], status |-> 200]
ReturnError(code, status) == [data |-> ErrorResponse(code), status |-> status]

\* standard_response: the envelope of a view's return value
StandardResponse(r) ==
    IF r.status >= 400
    THEN IF r.data.kind = "dict" /\ r.data.error # "none"
         THEN [status |-> r.status, error |-> r.data.error]
         ELSE [status |-> r.status, error |-> "UNKNOWN_ERROR"]
    ELSE [status |-> r.status, error |-> "none"]

\* standard_response: the envelope when the view raised
InternalError == [status |-> 500, error |-> "INTERNAL_ERROR"]

\* Flask calls a view with the route's <session_id> as a keyword argument:
\* get_session(session_id) takes it, join_session() and leave_session() do not
\* variant of JoinSessionTakesRouteArg: a view that accepts session_id, so
\* that the body of join_session runs
JoinSessionAcceptsRouteArg == TRUE

JoinSessionTakesRouteArg == FALSE
LeaveSessionTakesRouteArg == FALSE

\* ------------------------------------------------------------------ HTTP routes
MaxParticipantsInputs == {0, 1, DefaultMaxParticipants}

\* uuid.uuid4(): an id nobody has used
Fresh(sid) ==
    /\ ~active_sessions[sid].present
    /\ ~sm_sessions[sid].present
    /\ \A c \in Conns : sid \notin rooms[c]

\* POST /sessions
CreateSession(u, maxp) ==
    \E sid \in SessionIds :
        /\ Fresh(sid)
        /\ active_sessions' = [active_sessions EXCEPT ![sid] =
               [present |-> TRUE, creator_id |-> u, max_participants |-> maxp,
                participants |-> <<u>>, updated_at |-> 0]]
        /\ sm_sessions' = GetDocSessions(sm_sessions, sid)
        /\ http_resp' = StandardResponse(ReturnDict)
        /\ UNCHANGED <<connected, rooms, inbox, cdoc, chat_seq, arrived, missed, ws_error>>

\* GET /sessions/<session_id>
GetSession(sid) ==
    /\ http_resp' = IF ~active_sessions[sid].present
                    THEN StandardResponse(ReturnError("SESSION_NOT_FOUND", 404))
                    ELSE StandardResponse(ReturnDict)
    /\ UNCHANGED <<active_sessions, sm_sessions, connected, rooms, inbox, cdoc, chat_seq, arrived, missed, ws_error>>

\* the participants after `if user_id not in ...: append`
AppendUser(sess, u) ==
    IF InSeq(u, sess.participants) THEN sess
    ELSE [sess EXCEPT !.participants = Append(@, u), !.updated_at = @ + 1]

\* the participants after `if user_id in ...: remove`
RemoveUser(sess, u) ==
    IF ~InSeq(u, sess.participants) THEN sess
    ELSE [sess EXCEPT !.participants = SelectSeq(@, LAMBDA x : x # u),
                      !.updated_at = @ + 1]

\* the body of join_session, for the sessionId of the request's JSON
JoinSessionBody(u, sid) ==
    IF ~active_sessions[sid].present
    THEN /\ http_resp' = StandardResponse(ReturnError("SESSION_NOT_FOUND", 404))
         /\ UNCHANGED <<active_sessions, inbox>>
    ELSE IF Len(active_sessions[sid].participants) >= active_sessions[sid].max_participants
    THEN /\ http_resp' = StandardResponse(ReturnError("SESSION_FULL", 400))
         /\ UNCHANGED <<active_sessions, inbox>>
    ELSE /\ RoomFits(rooms, sid, NoConn)
         /\ active_sessions' = [active_sessions EXCEPT ![sid] = AppendUser(@, u)]
         /\ inbox' = EmitRoom(inbox, rooms, sid, NoConn,
                Event("user_joined", sid, NoConn, u,
                      Len(AppendUser(active_sessions[sid], u).participants), <<>>))
         /\ http_resp' = StandardResponse(ReturnDict)

\* POST /sessions/<session_id>/join
HttpJoin(u, sid) ==
    /\ IF JoinSessionTakesRouteArg
       THEN JoinSessionBody(u, sid)
       ELSE http_resp' = InternalError /\ UNCHANGED <<active_sessions, inbox>>
    /\ UNCHANGED <<sm_sessions, connected, rooms, cdoc, chat_seq, arrived, missed, ws_error>>

\* the body of leave_session
LeaveSessionBody(u, sid) ==
    IF ~active_sessions[sid].present
    THEN /\ http_resp' = StandardResponse(ReturnError("SESSION_NOT_FOUND", 404))
         /\ UNCHANGED <<active_sessions, inbox>>
    ELSE /\ RoomFits(rooms, sid, NoConn)
         /\ active_sessions' = [active_sessions EXCEPT ![sid] = RemoveUser(@, u)]
         /\ inbox' = EmitRoom(inbox, rooms, sid, NoConn,
                Event("user_left", sid, NoConn, u,
                      Len(RemoveUser(active_sessions[sid], u).participants), <<>>))
         /\ http_resp' = StandardResponse(ReturnDict)

\* POST /sessions/<session_id>/leave
HttpLeave(u, sid) ==
    /\ IF LeaveSessionTakesRouteArg
       THEN LeaveSessionBody(u, sid)
       ELSE http_resp' = InternalError /\ UNCHANGED <<active_sessions, inbox>>
    /\ UNCHANGED <<sm_sessions, connected, rooms, cdoc, chat_seq, arrived, missed, ws_error>>


\* ------------------------------------------------------------------ Socket.IO handlers
\* @socketio.on('connect')
HandleConnect(c) ==
    /\ c \notin connected
    /\ connected' = connected \cup {c}
    /\ inbox' = EmitSelf(inbox, c, Event("connected", NoneId, c, 0, 0, <<>>))
    /\ ws_error' = "none"
    /\ UNCHANGED <<active_sessions, sm_sessions, rooms, cdoc, http_resp, chat_seq, arrived, missed>>

\* @socketio.on('disconnect'): the socket is closed, so the 'disconnected'
\* event reaches nobody; Socket.IO takes the connection out of its rooms
HandleDisconnect(c) ==
    /\ c \in connected
    /\ connected' = connected \ {c}
    /\ rooms' = [rooms EXCEPT ![c] = {}]
    /\ inbox' = [inbox EXCEPT ![c] = <<>>]
    /\ missed' = [s \in SessionIds |->
           IF \E i \in 1..Len(inbox[c]) :
                  inbox[c][i].type = "yjs_update" /\ inbox[c][i].session_id = s
           THEN missed[s] \cup {c} ELSE missed[s]]
    /\ ws_error' = "none"
    /\ UNCHANGED <<active_sessions, sm_sessions, cdoc, http_resp, chat_seq, arrived>>

\* join_room(f"session_{session_id}")
JoinRoom(rms, c, sid) == [rms EXCEPT ![c] = @ \cup {sid}]

\* faulty variant of WsJoinParticipants: the capacity check of the HTTP join
WsJoinParticipantsChecked(sess, u) ==
    IF Len(sess.participants) >= sess.max_participants THEN sess ELSE AppendUser(sess, u)

\* handle_join_session: the participants after the event
WsJoinParticipants(sess, u) == AppendUser(sess, u)

\* @socketio.on('join_session')
HandleJoinSession(c, sid, u) ==
    /\ c \in connected
    /\ rooms' = JoinRoom(rooms, c, sid)
    /\ IF sid \in SessionIds /\ active_sessions[sid].present
       THEN /\ RoomFits(rooms', sid, NoConn)
            /\ active_sessions' = [active_sessions EXCEPT ![sid] = WsJoinParticipants(@, u)]
            /\ inbox' = EmitRoom(inbox, rooms', sid, NoConn,
                   Event("session_state", sid, c, 0, 0,
                         WsJoinParticipants(active_sessions[sid], u).participants))
       ELSE UNCHANGED <<active_sessions, inbox>>
    /\ ws_error' = "none"
    /\ UNCHANGED <<sm_sessions, connected, cdoc, http_resp, chat_seq, arrived, missed>>

\* the state vector after `if isinstance(state_vector, list): bytes(...)`
Normalize(w) == IF w.form = "list" THEN BytesWire(ToBytes(w)) ELSE w

\* faulty variant of SyncReplyEmit: the reply goes to the session's room too
SyncReplyEmitRoom(ib, rms, c, sid, m) == EmitRoom(EmitSelf(ib, c, m), rms, sid, c, m)

\* the emit of handle_yjs_sync_step1: no `to`, so the requester alone
SyncReplyEmit(ib, rms, c, sid, m) == EmitSelf(ib, c, m)

\* @socketio.on('yjs_sync_step1')
HandleYjsSyncStep1(c, sid, w) ==
    /\ c \in connected
    /\ IF sid = NoneId
       THEN ws_error' = "none" /\ UNCHANGED <<sm_sessions, inbox>>
       ELSE IF BytesRaises(w)
       THEN ws_error' = "ValueError" /\ UNCHANGED <<sm_sessions, inbox>>
       ELSE /\ Len(inbox[c]) < MaxInbox
            /\ ws_error' = "none"
            /\ sm_sessions' = GetDocSessions(sm_sessions, sid)
            /\ inbox' = SyncReplyEmit(inbox, rooms, c, sid,
                   Msg("yjs_sync_step2", sid, c,
                       ToList(SyncStep2(GetDoc(sm_sessions, sid), Normalize(w))),
                       0, 0, <<>>))
    /\ UNCHANGED <<active_sessions, connected, rooms, cdoc, http_resp, chat_seq, arrived, missed>>

\* faulty variants: include_self left at its default, or set where it is not
CursorSkipNobody(c) == NoConn
ChatSkipSelf(c) == c

\* include_self=False of handle_yjs_update and handle_cursor_position
UpdateSkip(c) == c
CursorSkip(c) == c
\* handle_chat_message emits to the whole room
ChatSkip(c) == NoConn

\* @socketio.on('yjs_update')
HandleYjsUpdate(c, sid, w) ==
    /\ c \in connected
    /\ IF sid = NoneId \/ Falsy(w)
       THEN ws_error' = "none" /\ UNCHANGED <<sm_sessions, inbox, arrived, missed>>
       ELSE IF BytesRaises(w)
       THEN ws_error' = "ValueError" /\ UNCHANGED <<sm_sessions, inbox, arrived, missed>>
       ELSE /\ GetDocSessions(sm_sessions, sid)[sid].last_updated < MaxMerges
            /\ sm_sessions' = ProcessUpdate(sm_sessions, sid, ToBytes(w))
            /\ IF ApplyRaises(ToBytes(w))
               THEN ws_error' = "EncodingException" /\ UNCHANGED <<inbox, arrived, missed>>
               ELSE /\ RoomFits(rooms, sid, UpdateSkip(c))
                    /\ ws_error' = "none"
                    /\ inbox' = EmitRoom(inbox, rooms, sid, UpdateSkip(c),
                           Msg("yjs_update", sid, c, ToList(ToBytes(w)),
                               0, 0, <<>>))
                    /\ arrived' = [arrived EXCEPT ![sid] = @ \cup DecodeUpdate(ToBytes(w))]
                    /\ missed' = [missed EXCEPT ![sid] =
                           @ \cup {d \in Conns : d # c /\ sid \notin rooms[d]}]
    /\ UNCHANGED <<active_sessions, connected, rooms, cdoc, http_resp, chat_seq>>

\* @socketio.on('cursor_position')
HandleCursorPosition(c, sid, u) ==
    /\ c \in connected
    /\ RoomFits(rooms, sid, CursorSkip(c))
    /\ inbox' = EmitRoom(inbox, rooms, sid, CursorSkip(c),
           Event("cursor_updated", sid, c, u, 0, <<>>))
    /\ ws_error' = "none"
    /\ UNCHANGED <<active_sessions, sm_sessions, connected, rooms, cdoc, http_resp, chat_seq, arrived, missed>>

\* @socketio.on('chat_message'): the id is a fresh uuid4
HandleChatMessage(c, sid, u) ==
    /\ c \in connected
    /\ chat_seq < MaxChats
    /\ RoomFits(rooms, sid, ChatSkip(c))
    /\ chat_seq' = chat_seq + 1
    /\ inbox' = EmitRoom(inbox, rooms, sid, ChatSkip(c),
           Event("chat_message", sid, c, u, chat_seq + 1, <<>>))
    /\ ws_error' = "none"
    /\ UNCHANGED <<active_sessions, sm_sessions, connected, rooms, cdoc, http_resp,
                   arrived, missed>>

\* ------------------------------------------------------------------ clients
\* the user id a connection's client puts in its events
UserOf(c) == ((c - 1) % NUsers) + 1

\* the structs a client made itself
OwnStructs(c) == {x \in cdoc[c].structs : x[1] = c}

\* a local edit: one more struct of the client's own
ClientEdit(c, n) ==
    /\ Clock(cdoc[c], c) < n
    /\ cdoc' = [cdoc EXCEPT ![c] = ApplyUpdate(@, EncodeUpdate({<<c, Clock(cdoc[c], c)>>}))]
    /\ UNCHANGED <<active_sessions, sm_sessions, connected, rooms, inbox, http_resp, chat_seq, arrived, missed, ws_error>>

\* the client reads its next event and merges a document update into its replica
ClientMerge(doc, m) ==
    IF m.type \in {"yjs_update", "yjs_sync_step2"}
    THEN ApplyUpdate(doc, ToBytes(m.update)) ELSE doc

ClientReceive(c) ==
    /\ inbox[c] # <<>>
    /\ cdoc' = [cdoc EXCEPT ![c] = ClientMerge(@, Head(inbox[c]))]
    /\ inbox' = [inbox EXCEPT ![c] = Tail(@)]
    /\ UNCHANGED <<active_sessions, sm_sessions, connected, rooms, http_resp, chat_seq, arrived, missed, ws_error>>

\* the update payloads a client may send: each edit of its own, in either
\* wire form and any number of times, nothing, an empty payload
UpdateInputs(c) ==
    {NoneWire, BytesWire(<<>>), ListWire(<<>>)}
    \cup {BytesWire(EncodeUpdate({x})) : x \in OwnStructs(c)}
    \cup {ListWire(EncodeUpdate({x})) : x \in OwnStructs(c)}

\* the state vectors a client may send: nothing, an empty one, its replica's
\* vector in either wire form, bytes that are no vector
VectorInputs(c) ==
    {NoneWire, BytesWire(<<>>), ListWire(<<>>), BytesWire(<<3>>),
     BytesWire(EncodeStateVector(cdoc[c])), ListWire(EncodeStateVector(cdoc[c]))}

\* payloads that are no update: bytes or a list that do not decode, and a
\* list that is no byte string
MalformedUpdateInputs == {BytesWire(<<7>>), ListWire(<<7>>), ListWire(<<256>>)}

\* payloads that are no state vector, likewise
MalformedVectorInputs == {BytesWire(<<3>>), ListWire(<<3>>), ListWire(<<256>>)}

\* ------------------------------------------------------------------ threads
\* The SessionManager's methods statement by statement, as the threads of
\* the server run them side by side.  pc names the statement a thread is at.
Methods == {"get_doc", "handle_sync_step1", "process_update", "get_document_state"}

\* the update a thread's process_update call carries
ThreadUpdate(t) == EncodeUpdate({<<t, 0>>})

\* faulty variant of LockFree: a lock that excludes nobody
LockFreeAlways(l) == TRUE

\* threading.Lock: `with self._lock` enters when nobody holds the one lock
LockFree(l) == l = NoThread

\* a handler's thread calls a method; every method starts with get_doc
ThreadCall(t, op, sid) ==
    /\ thr[t].pc = "idle"
    /\ op = "process_update" => GetDocSessions(sm_sessions, sid)[sid].last_updated < MaxMerges
    /\ thr' = [thr EXCEPT ![t] = [pc |-> "gd_acquire", op |-> op, sid |-> sid, doc |-> 0,
                                  unseen |-> ~sm_sessions[sid].present]]
    /\ UNCHANGED <<sm_sessions, lock, created, hvars>>

\* get_doc: `with self._lock:`
GetDocAcquire(t) ==
    /\ thr[t].pc = "gd_acquire"
    /\ LockFree(lock)
    /\ lock' = t
    /\ thr' = [thr EXCEPT ![t].pc = "gd_check"]
    /\ UNCHANGED <<sm_sessions, created, hvars>>

\* get_doc: `if session_id not in self._sessions:`
GetDocCheck(t) ==
    /\ thr[t].pc = "gd_check"
    /\ thr' = [thr EXCEPT ![t].pc =
           IF sm_sessions[thr[t].sid].present THEN "gd_return" ELSE "gd_create"]
    /\ UNCHANGED <<sm_sessions, lock, created, hvars>>

\* get_doc: the new entry with its Y.YDoc(), and the initial text
GetDocCreate(t) ==
    /\ thr[t].pc = "gd_create"
    /\ sm_sessions' = [sm_sessions EXCEPT ![thr[t].sid] = NewEntry]
    /\ created' = [created EXCEPT ![thr[t].sid] = @ + 1]
    /\ thr' = [thr EXCEPT ![t].pc = "gd_return"]
    /\ UNCHANGED <<lock, hvars>>

\* the statement of a method that follows its get_doc call
AfterGetDoc(op) ==
    IF op = "get_doc" THEN "idle"
    ELSE IF op = "process_update" THEN "pu_acquire"
    ELSE "encode"

\* get_doc: `return self._sessions[session_id]['doc']`, leaving the lock
GetDocReturn(t) ==
    /\ thr[t].pc = "gd_return"
    /\ lock' = NoThread
    /\ thr' = [thr EXCEPT ![t].pc = AfterGetDoc(thr[t].op),
                          ![t].doc = created[thr[t].sid]]
    /\ UNCHANGED <<sm_sessions, created, hvars>>

\* handle_sync_step1 / get_document_state: Y.encode_state_as_update(doc ...),
\* outside any `with self._lock`
ThreadEncode(t) ==
    /\ thr[t].pc = "encode"
    /\ thr' = [thr EXCEPT ![t].pc = "idle"]
    /\ UNCHANGED <<sm_sessions, lock, created, hvars>>

\* process_update: `with self._lock:`
ProcessUpdateAcquire(t) ==
    /\ thr[t].pc = "pu_acquire"
    /\ LockFree(lock)
    /\ lock' = t
    /\ thr' = [thr EXCEPT ![t].pc = "pu_apply"]
    /\ UNCHANGED <<sm_sessions, created, hvars>>

\* the payloads a process_update call may carry: the thread's update, or
\* bytes that are no update
ThreadPayloads(t) == {ThreadUpdate(t), <<7>>}

\* faulty variant of LockAfterRaise: the lock stays with the thread whose
\* merge raised
LockKeptAfterRaise(t) == t

\* an exception leaving the `with self._lock` block releases the lock
LockAfterRaise(t) == NoThread

\* process_update: Y.apply_update(txn, update_data) on the document get_doc
\* returned (the registry shows it while that document is still the entry's);
\* when it raises, the exception leaves the `with` blocks and the method
ProcessUpdateApply(t) ==
    /\ thr[t].pc = "pu_apply"
    /\ \E b \in ThreadPayloads(t) :
          IF ApplyRaises(b)
          THEN /\ ws_error' = "EncodingException"
               /\ lock' = LockAfterRaise(t)
               /\ thr' = [thr EXCEPT ![t].pc = "idle"]
               /\ UNCHANGED sm_sessions
          ELSE /\ sm_sessions' = IF thr[t].doc = created[thr[t].sid]
                                 THEN [sm_sessions EXCEPT ![thr[t].sid].doc = ApplyUpdate(@, b)]
                                 ELSE sm_sessions
               /\ thr' = [thr EXCEPT ![t].pc = "pu_stamp"]
               /\ UNCHANGED <<lock, ws_error>>
    /\ UNCHANGED <<created, active_sessions, connected, rooms, inbox, cdoc, http_resp,
                   chat_seq, arrived, missed, qvars>>

\* process_update: `self._sessions[session_id]['last_updated'] = ...`, then
\* the end of the `with self._lock` block
ProcessUpdateStamp(t) ==
    /\ thr[t].pc = "pu_stamp"
    /\ sm_sessions' = [sm_sessions EXCEPT ![thr[t].sid].last_updated = @ + 1]
    /\ lock' = NoThread
    /\ thr' = [thr EXCEPT ![t].pc = "idle"]
    /\ UNCHANGED <<created, hvars>>

\* ------------------------------------------------------------------ requests, statement by statement
\* The rate limiter and the join handlers as the threads of the server run
\* them side by side.  pc names the statement a request is at.

\* the state these requests never touch
dvars == <<sm_sessions, connected, cdoc, chat_seq, arrived, missed, lock, thr, created>>

\* the 429 of the rate limiter
TooManyRequests == [status |-> 429, error |-> "RATE_LIMIT_EXCEEDED"]

\* int(time.time()) at the instant tick
CurrentTime(tick) == tick \div TicksPerSecond

\* the instants of the history that lie within the `window` seconds up to now
InWindow(q, tick) == SelectSeq(q, LAMBDA x : x > tick - Window * TicksPerSecond)

\* time passes; the history keeps the instants of the last `window` seconds
Tick ==
    /\ now < MaxTicks
    /\ now' = now + 1
    /\ admitted' = [a \in Addrs |-> InWindow(admitted[a], now')]
    /\ UNCHANGED <<active_sessions, rooms, inbox, http_resp, ws_error, req, rl_store, dvars>>

\* rate_limit: key = f"{client_ip}:{endpoint}" for the one endpoint
\* join_session; t0 is the instant at which the call reads time.time()
RateLimitCall(t, a) ==
    /\ req[t].pc = "idle"
    /\ Len(admitted[a]) <= Requests
    /\ req' = [req EXCEPT ![t] = [ReqIdle EXCEPT !.pc = "rl_filter", !.addr = a,
                                                 !.t0 = now]]
    /\ UNCHANGED <<active_sessions, rooms, inbox, http_resp, ws_error, rl_store, now,
                   admitted, dvars>>

\* rate_limit: [timestamp for timestamp in store[key] if timestamp > window_start]
RateLimitFilter(t) ==
    /\ req[t].pc = "rl_filter"
    /\ req' = [req EXCEPT ![t].pc = "rl_assign",
                          ![t].lst = SelectSeq(rl_store[req[t].addr],
                                               LAMBDA ts : ts > CurrentTime(req[t].t0) - Window)]
    /\ UNCHANGED <<active_sessions, rooms, inbox, http_resp, ws_error, rl_store, now,
                   admitted, dvars>>

\* rate_limit: _rate_limit_store[key] = the filtered list
RateLimitAssign(t) ==
    /\ req[t].pc = "rl_assign"
    /\ rl_store' = [rl_store EXCEPT ![req[t].addr] = req[t].lst]
    /\ req' = [req EXCEPT ![t].pc = "rl_check", ![t].lst = <<>>]
    /\ UNCHANGED <<active_sessions, rooms, inbox, http_resp, ws_error, now, admitted, dvars>>

\* rate_limit: `if len(_rate_limit_store[key]) >= requests:` return the 429
RateLimitCheck(t) ==
    /\ req[t].pc = "rl_check"
    /\ IF Len(rl_store[req[t].addr]) >= Requests
       THEN /\ http_resp' = TooManyRequests
            /\ req' = [req EXCEPT ![t] = ReqIdle]
       ELSE /\ req' = [req EXCEPT ![t].pc = "rl_append"]
            /\ UNCHANGED http_resp
    /\ UNCHANGED <<active_sessions, rooms, inbox, ws_error, rl_store, now, admitted, dvars>>

\* rate_limit: _rate_limit_store[key].append(current_time); the call goes on
\* to the view
RateLimitAppend(t) ==
    /\ req[t].pc = "rl_append"
    /\ rl_store' = [rl_store EXCEPT ![req[t].addr] = Append(@, CurrentTime(req[t].t0))]
    /\ admitted' = [admitted EXCEPT ![req[t].addr] = InWindow(Append(@, req[t].t0), now)]
    /\ req' = [req EXCEPT ![t].pc = "view"]
    /\ UNCHANGED <<active_sessions, rooms, inbox, http_resp, ws_error, now, dvars>>

\* a request that has answered
Answer(t, r) ==
    /\ http_resp' = r
    /\ req' = [req EXCEPT ![t] = ReqIdle]

\* rate_limit: `return f(*args, **kwargs)`: standard_response around
\* join_session, which Flask's session_id keyword does not get into; past
\* that, the body of join_session one statement at a time
JoinSessionStep(t) ==
    /\ req[t].pc \in {"view", "hj_found", "hj_full", "hj_member", "hj_append", "hj_emit"}
    /\ LET sid == req[t].sid
           u == req[t].user
       IN  IF req[t].pc = "view"
           THEN IF ~JoinSessionTakesRouteArg
                THEN Answer(t, InternalError) /\ UNCHANGED <<active_sessions, inbox>>
                ELSE /\ \E v \in Users, s \in SessionIds :
                          req' = [req EXCEPT ![t].pc = "hj_found", ![t].user = v, ![t].sid = s]
                     /\ UNCHANGED <<active_sessions, inbox, http_resp>>
           ELSE IF req[t].pc = "hj_found"
           THEN IF ~active_sessions[sid].present
                THEN /\ Answer(t, StandardResponse(ReturnError("SESSION_NOT_FOUND", 404)))
                     /\ UNCHANGED <<active_sessions, inbox>>
                ELSE /\ req' = [req EXCEPT ![t].pc = "hj_full"]
                     /\ UNCHANGED <<active_sessions, inbox, http_resp>>
           ELSE IF req[t].pc = "hj_full"
           THEN IF Len(active_sessions[sid].participants) >= active_sessions[sid].max_participants
                THEN /\ Answer(t, StandardResponse(ReturnError("SESSION_FULL", 400)))
                     /\ UNCHANGED <<active_sessions, inbox>>
                ELSE /\ req' = [req EXCEPT ![t].pc = "hj_member"]
                     /\ UNCHANGED <<active_sessions, inbox, http_resp>>
           ELSE IF req[t].pc = "hj_member"
           THEN /\ req' = [req EXCEPT ![t].pc =
                       IF InSeq(u, active_sessions[sid].participants)
                       THEN "hj_emit" ELSE "hj_append"]
                /\ UNCHANGED <<active_sessions, inbox, http_resp>>
           ELSE IF req[t].pc = "hj_append"
           THEN /\ active_sessions' = [active_sessions EXCEPT
                       ![sid].participants = Append(@, u), ![sid].updated_at = @ + 1]
                /\ req' = [req EXCEPT ![t].pc = "hj_emit"]
                /\ UNCHANGED <<inbox, http_resp>>
           ELSE /\ RoomFits(rooms, sid, NoConn)
                /\ inbox' = EmitRoom(inbox, rooms, sid, NoConn,
                       Event("user_joined", sid, NoConn, u,
                             Len(active_sessions[sid].participants), <<>>))
                /\ Answer(t, StandardResponse(ReturnDict))
                /\ UNCHANGED active_sessions
    /\ UNCHANGED <<rooms, ws_error, rl_store, now, admitted, dvars>>

\* a join_session event enters its handler
WsJoinCall(t, c, sid, u) ==
    /\ req[t].pc = "idle"
    /\ c \in connected
    /\ Len(active_sessions[sid].participants) <= NUsers
    /\ req' = [req EXCEPT ![t] = [ReqIdle EXCEPT !.pc = "wj_room", !.conn = c,
                                                 !.sid = sid, !.user = u]]
    /\ UNCHANGED <<active_sessions, rooms, inbox, http_resp, ws_error, rl_store, now,
                   admitted, dvars>>

\* handle_join_session: join_room(...) and `if session_id in active_sessions:`
WsJoinRoom(t) ==
    /\ req[t].pc = "wj_room"
    /\ rooms' = JoinRoom(rooms, req[t].conn, req[t].sid)
    /\ IF req[t].sid \in SessionIds /\ active_sessions[req[t].sid].present
       THEN req' = [req EXCEPT ![t].pc = "wj_member"] /\ UNCHANGED ws_error
       ELSE req' = [req EXCEPT ![t] = ReqIdle] /\ ws_error' = "none"
    /\ UNCHANGED <<active_sessions, inbox, http_resp, rl_store, now, admitted, dvars>>

\* handle_join_session: `if user_id not in session['participants']:`
WsJoinMember(t) ==
    /\ req[t].pc = "wj_member"
    /\ req' = [req EXCEPT ![t].pc =
           IF InSeq(req[t].user, active_sessions[req[t].sid].participants)
           THEN "wj_emit" ELSE "wj_append"]
    /\ UNCHANGED <<active_sessions, rooms, inbox, http_resp, ws_error, rl_store, now,
                   admitted, dvars>>

\* handle_join_session: session['participants'].append(user_id) and updated_at
WsJoinAppend(t) ==
    /\ req[t].pc = "wj_append"
    /\ active_sessions' = [active_sessions EXCEPT
           ![req[t].sid].participants = Append(@, req[t].user),
           ![req[t].sid].updated_at = @ + 1]
    /\ req' = [req EXCEPT ![t].pc = "wj_emit"]
    /\ UNCHANGED <<rooms, inbox, http_resp, ws_error, rl_store, now, admitted, dvars>>

\* handle_join_session: emit('session_state', ..., to=room)
WsJoinEmit(t) ==
    /\ req[t].pc = "wj_emit"
    /\ RoomFits(rooms, req[t].sid, NoConn)
    /\ inbox' = EmitRoom(inbox, rooms, req[t].sid, NoConn,
           Event("session_state", req[t].sid, req[t].conn, 0, 0,
                 active_sessions[req[t].sid].participants))
    /\ ws_error' = "none"
    /\ req' = [req EXCEPT ![t] = ReqIdle]
    /\ UNCHANGED <<active_sessions, rooms, http_resp, rl_store, now, admitted, dvars>>

\* the capacities of the sessions that the join requests are sent to
JoinCapacityInputs == {1, 2}

\* ------------------------------------------------------------------ specifications
\* Document synchronisation: connections, rooms, the sync handshake, updates.
NextSync ==
    \/ \E c \in Conns : HandleConnect(c) /\ UNCHANGED tvars
    \/ \E c \in Conns, sid \in SyncSessionIds : HandleJoinSession(c, sid, UserOf(c)) /\ UNCHANGED tvars
    \/ \E c \in Conns, sid \in SyncEventSessionIds : \E w \in VectorInputs(c) : HandleYjsSyncStep1(c, sid, w) /\ UNCHANGED tvars
    \/ \E c \in Conns, sid \in SyncEventSessionIds : \E w \in UpdateInputs(c) : HandleYjsUpdate(c, sid, w) /\ UNCHANGED tvars
    \/ \E c \in Conns : ClientEdit(c, MaxEdits) /\ UNCHANGED tvars
    \/ \E c \in Conns : ClientReceive(c) /\ UNCHANGED tvars

SpecSync == Init /\ [][NextSync]_vars

\* Fan-out: the events that are broadcast to a session's room.
NextBroadcast ==
    \/ \E c \in Conns : HandleConnect(c) /\ UNCHANGED tvars
    \/ \E c \in Conns, sid \in SessionIds : HandleJoinSession(c, sid, UserOf(c)) /\ UNCHANGED tvars
    \/ \E c \in Conns, sid \in EventSessionIds : \E w \in UpdateInputs(c) : HandleYjsUpdate(c, sid, w) /\ UNCHANGED tvars
    \/ \E c \in Conns, sid \in EventSessionIds : HandleCursorPosition(c, sid, UserOf(c)) /\ UNCHANGED tvars
    \/ \E c \in Conns, sid \in EventSessionIds : HandleChatMessage(c, sid, UserOf(c)) /\ UNCHANGED tvars
    \/ \E c \in Conns : ClientEdit(c, MaxFanoutEdits) /\ UNCHANGED tvars
    \/ \E c \in Conns : ClientReceive(c) /\ UNCHANGED tvars

SpecBroadcast == Init /\ [][NextBroadcast]_vars

\* Session membership: the HTTP routes and the join_session event.
NextPresence ==
    \/ \E u \in Users, maxp \in MaxParticipantsInputs : CreateSession(u, maxp) /\ UNCHANGED tvars
    \/ \E sid \in SessionIds : GetSession(sid) /\ UNCHANGED tvars
    \/ \E u \in Users, sid \in SessionIds : HttpJoin(u, sid) /\ UNCHANGED tvars
    \/ \E u \in Users, sid \in SessionIds : HttpLeave(u, sid) /\ UNCHANGED tvars
    \/ \E c \in Conns : HandleConnect(c) /\ UNCHANGED tvars
    \/ \E c \in Conns : HandleDisconnect(c) /\ UNCHANGED tvars
    \/ \E c \in Conns, sid \in EventSessionIds, u \in Users : HandleJoinSession(c, sid, u) /\ UNCHANGED tvars
    \/ \E c \in Conns : ClientReceive(c) /\ UNCHANGED tvars

SpecPresence == Init /\ [][NextPresence]_vars

\* Malformed payloads: what the handlers do with events that do not decode.
NextErrors ==
    \/ \E c \in Conns : HandleConnect(c) /\ UNCHANGED tvars
    \/ \E c \in Conns, sid \in SyncSessionIds : HandleJoinSession(c, sid, UserOf(c)) /\ UNCHANGED tvars
    \/ \E c \in Conns, sid \in SyncEventSessionIds :
          \E w \in VectorInputs(c) \cup MalformedVectorInputs : HandleYjsSyncStep1(c, sid, w) /\ UNCHANGED tvars
    \/ \E c \in Conns, sid \in SyncEventSessionIds :
          \E w \in UpdateInputs(c) \cup MalformedUpdateInputs : HandleYjsUpdate(c, sid, w) /\ UNCHANGED tvars
    \/ \E c \in Conns : ClientEdit(c, MaxFanoutEdits) /\ UNCHANGED tvars
    \/ \E c \in Conns : ClientReceive(c) /\ UNCHANGED tvars

SpecErrors == Init /\ [][NextErrors]_vars

\* Two sessions side by side, one of them sent payloads that do not decode.
NextIsolation ==
    \/ \E c \in Conns : HandleConnect(c) /\ UNCHANGED tvars
    \/ \E c \in Conns, sid \in SessionIds : HandleJoinSession(c, sid, UserOf(c)) /\ UNCHANGED tvars
    \/ \E c \in Conns, sid \in SessionIds :
          \E w \in UpdateInputs(c) \cup MalformedUpdateInputs : HandleYjsUpdate(c, sid, w) /\ UNCHANGED tvars
    \/ \E c \in Conns : ClientEdit(c, MaxFanoutEdits) /\ UNCHANGED tvars
    \/ \E c \in Conns : ClientReceive(c) /\ UNCHANGED tvars

SpecIsolation == Init /\ [][NextIsolation]_vars

\* the address whose calls are followed while time passes
ClockedAddrs == {1}

\* The rate limiter in front of the HTTP join, requests served side by side
\* while time passes.
NextRateLimit ==
    \/ Tick
    \/ \E t \in Threads, a \in ClockedAddrs : RateLimitCall(t, a)
    \/ \E t \in Threads : RateLimitFilter(t)
    \/ \E t \in Threads : RateLimitAssign(t)
    \/ \E t \in Threads : RateLimitCheck(t)
    \/ \E t \in Threads : RateLimitAppend(t)
    \/ \E t \in Threads : JoinSessionStep(t)

SpecRateLimit == Init /\ [][NextRateLimit]_vars

\* Sessions and the HTTP joins of one instant, requests served side by side.
NextHttp ==
    \/ \E u \in Users, maxp \in JoinCapacityInputs : CreateSession(u, maxp) /\ UNCHANGED tvars
    \/ \E t \in Threads, a \in Addrs : RateLimitCall(t, a)
    \/ \E t \in Threads : RateLimitFilter(t)
    \/ \E t \in Threads : RateLimitAssign(t)
    \/ \E t \in Threads : RateLimitCheck(t)
    \/ \E t \in Threads : RateLimitAppend(t)
    \/ \E t \in Threads : JoinSessionStep(t)

SpecHttp == Init /\ [][NextHttp]_vars

\* Membership with the join_session events handled side by side.
NextJoins ==
    \/ \E u \in Users : CreateSession(u, DefaultMaxParticipants) /\ UNCHANGED tvars
    \/ \E u \in Users, sid \in SessionIds : HttpJoin(u, sid) /\ UNCHANGED tvars
    \/ \E u \in Users, sid \in SessionIds : HttpLeave(u, sid) /\ UNCHANGED tvars
    \/ \E c \in Conns : HandleConnect(c) /\ UNCHANGED tvars
    \/ \E t \in Threads, c \in Conns, sid \in SyncSessionIds, u \in Users : WsJoinCall(t, c, sid, u)
    \/ \E t \in Threads : WsJoinRoom(t)
    \/ \E t \in Threads : WsJoinMember(t)
    \/ \E t \in Threads : WsJoinAppend(t)
    \/ \E t \in Threads : WsJoinEmit(t)
    \/ \E c \in Conns : ClientReceive(c) /\ UNCHANGED tvars

SpecJoins == Init /\ [][NextJoins]_vars

\* The SessionManager under concurrent calls.
NextThreads ==
    \/ \E t \in Threads, op \in Methods, sid \in SessionIds : ThreadCall(t, op, sid)
    \/ \E t \in Threads : GetDocAcquire(t)
    \/ \E t \in Threads : GetDocCheck(t)
    \/ \E t \in Threads : GetDocCreate(t)
    \/ \E t \in Threads : GetDocReturn(t)
    \/ \E t \in Threads : ThreadEncode(t)
    \/ \E t \in Threads : ProcessUpdateAcquire(t)
    \/ \E t \in Threads : ProcessUpdateApply(t)
    \/ \E t \in Threads : ProcessUpdateStamp(t)

SpecThreads == Init /\ [][NextThreads]_vars

\* Everything together.
Next == NextSync \/ NextBroadcast \/ NextPresence \/ NextErrors \/ NextIsolation
        \/ NextThreads \/ NextRateLimit \/ NextHttp \/ NextJoins

Spec == Init /\ [][Next]_vars


\* ------------------------------------------------------------------ properties
LastOf(q) == q[Len(q)]

HasMsg(c, type) == \E i \in 1..Len(inbox[c]) : inbox[c][i].type = type

\* C1 (convergence): for two connections a and b that are in the room of
\* session s, that were sent every update merged into s, and whose replicas
\* hold only updates that were sent as yjs_update events naming s: once
\* nothing is in flight to either, both replicas and the server's document
\* for s hold the same content.
C1_Convergence ==
    \A s \in SessionIds : \A a \in Conns : \A b \in Conns \ {a} :
        ( /\ s \in rooms[a] /\ s \in rooms[b]
          /\ a \notin missed[s] /\ b \notin missed[s]
          /\ Content(cdoc[a]) \cup Content(cdoc[b]) \subseteq arrived[s]
          /\ inbox[a] = <<>> /\ inbox[b] = <<>> )
        => /\ Content(cdoc[a]) = Content(cdoc[b])
           /\ Content(cdoc[a]) = Content(sm_sessions[s].doc)

\* both connections have sent an update of their own and all has been merged
C1_Witness ==
    \E s \in SessionIds : \E a \in Conns : \E b \in Conns \ {a} :
        /\ s \in rooms[a] /\ s \in rooms[b]
        /\ a \notin missed[s] /\ b \notin missed[s]
        /\ Content(cdoc[a]) \cup Content(cdoc[b]) \subseteq arrived[s]
        /\ inbox[a] = <<>> /\ inbox[b] = <<>>
        /\ OwnStructs(a) # {} /\ OwnStructs(b) # {}
        /\ sm_sessions[s].last_updated >= 2

\* C2 (idempotence): a yjs_update whose update the session's document has
\* merged before is merged again (last_updated advances, the room gets the
\* broadcast) and the document's content stays what it was.
C2_Idempotent ==
    [][\A c \in Conns : \A sid \in SessionIds : \A x \in arrived[sid] :
       \A w \in {BytesWire(EncodeUpdate({x})), ListWire(EncodeUpdate({x}))} :
         HandleYjsUpdate(c, sid, w)
         => /\ Content(sm_sessions'[sid].doc) = Content(sm_sessions[sid].doc)
            /\ sm_sessions'[sid].last_updated = sm_sessions[sid].last_updated + 1
            /\ \A d \in Conns \ {c} : sid \in rooms[d] =>
                   /\ Len(inbox'[d]) = Len(inbox[d]) + 1
                   /\ LastOf(inbox'[d]).type = "yjs_update"
                   /\ ToBytes(LastOf(inbox'[d]).update) = ToBytes(w)]_vars

\* one update has been merged twice into a session's document
C2_Witness ==
    \E s \in SessionIds :
        /\ sm_sessions[s].last_updated >= 2
        /\ Cardinality(arrived[s]) = 1
        /\ Content(sm_sessions[s].doc) = arrived[s]

\* C3 (sync bootstrap): a yjs_sync_step1 with an absent or empty state vector
\* is answered to the sender with a yjs_sync_step2 whose update, merged into
\* an empty document, gives the content of the server's document.
C3_SyncBootstrap ==
    [][\A c \in Conns : \A sid \in SessionIds :
       \A w \in {NoneWire, BytesWire(<<>>), ListWire(<<>>)} :
         HandleYjsSyncStep1(c, sid, w)
         => /\ Len(inbox'[c]) = Len(inbox[c]) + 1
            /\ LastOf(inbox'[c]).type = "yjs_sync_step2"
            /\ LastOf(inbox'[c]).session_id = sid
            /\ Content(ApplyUpdate(EmptyDoc, ToBytes(LastOf(inbox'[c]).update)))
                   = Content(GetDoc(sm_sessions, sid))]_vars

\* a connection holds a reply that carries the whole of a non-empty document,
\* an update of its own replica included
C3_Witness ==
    \E c \in Conns : \E i \in 1..Len(inbox[c]) :
        /\ inbox[c][i].type = "yjs_sync_step2"
        /\ inbox[c][i].session_id \in SessionIds
        /\ DecodeUpdate(ToBytes(inbox[c][i].update))
               = Content(sm_sessions[inbox[c][i].session_id].doc)
        /\ DecodeUpdate(ToBytes(inbox[c][i].update)) \cap Content(cdoc[c]) # {}

\* C4 (delta resync): for a yjs_sync_step1 that carries the client's
\* well-formed, non-empty state vector the reply holds every struct of the
\* server's document that the vector does not cover, and the client's
\* replica, once the reply is merged, contains the server's content.
C4_DeltaResync ==
    [][\A c \in Conns :
         LET sv == EncodeStateVector(cdoc[c])
         IN  \A sid \in SessionIds : \A w \in {BytesWire(sv), ListWire(sv)} :
               (WellFormedSV(sv) /\ ~Falsy(w) /\ HandleYjsSyncStep1(c, sid, w))
               => LET D == GetDoc(sm_sessions, sid)
                      U == ToBytes(LastOf(inbox'[c]).update)
                  IN  /\ Len(inbox'[c]) = Len(inbox[c]) + 1
                      /\ LastOf(inbox'[c]).type = "yjs_sync_step2"
                      /\ {x \in D.structs : x[2] >= SVClock(sv, x[1])}
                             \subseteq DecodeUpdate(U)
                      /\ Content(D) \subseteq Content(ApplyUpdate(cdoc[c], U))]_vars

\* a connection whose replica is not empty holds a reply with exactly the
\* part of the server's document that it lacks
C4_Witness ==
    \E c \in Conns : \E i \in 1..Len(inbox[c]) :
        LET m == inbox[c][i]
            U == DecodeUpdate(ToBytes(m.update))
        IN  /\ m.type = "yjs_sync_step2"
            /\ m.session_id \in SessionIds
            /\ Content(cdoc[c]) # {}
            /\ U # {}
            /\ U \cap Content(cdoc[c]) = {}
            /\ U \cup Content(cdoc[c]) = Content(sm_sessions[m.session_id].doc)

\* C5: a yjs_sync_step2 is only ever in flight to the connection whose
\* yjs_sync_step1 it answers.
C5_ReplyToRequesterOnly ==
    \A c \in Conns : \A i \in 1..Len(inbox[c]) :
        inbox[c][i].type = "yjs_sync_step2" => inbox[c][i].origin = c

\* a reply is in flight to one of two connections of the same room
C5_Witness ==
    \E c \in Conns : \E d \in Conns \ {c} : \E s \in SessionIds :
        /\ s \in rooms[c] /\ s \in rooms[d]
        /\ \E i \in 1..Len(inbox[c]) :
               inbox[c][i].type = "yjs_sync_step2" /\ inbox[c][i].session_id = s
        /\ ~HasMsg(d, "yjs_sync_step2")

\* C6 (no self-echo): no yjs_update or cursor_updated broadcast is ever in
\* flight to the connection whose event produced it.
C6_NoSelfEcho ==
    \A c \in Conns : \A i \in 1..Len(inbox[c]) :
        inbox[c][i].type \in {"yjs_update", "cursor_updated"} => inbox[c][i].origin # c

\* two connections of one room: one holds the other's cursor broadcast, the
\* other holds the first one's document update
C6_Witness ==
    \E c \in Conns : \E d \in Conns \ {c} : \E s \in SessionIds :
        /\ s \in rooms[c] /\ s \in rooms[d]
        /\ \E i \in 1..Len(inbox[d]) :
               /\ inbox[d][i].type = "cursor_updated"
               /\ inbox[d][i].origin = c /\ inbox[d][i].session_id = s
        /\ \E i \in 1..Len(inbox[c]) :
               /\ inbox[c][i].type = "yjs_update"
               /\ inbox[c][i].origin = d /\ inbox[c][i].session_id = s

\* the chat_message event the handler emits for the next chat of c
ChatEvent(c, sid) == Event("chat_message", sid, c, UserOf(c), chat_seq + 1, <<>>)

\* C7 as claimed: every connection that sends a chat_message receives the
\* broadcast generated for it.
C7_SenderAlwaysReceives ==
    [][\A c \in Conns : \A sid \in EventSessionIds :
         HandleChatMessage(c, sid, UserOf(c))
         => inbox'[c] = Append(inbox[c], ChatEvent(c, sid))]_vars

\* C7 (chat echo), amended: a chat_message is delivered, with its generated
\* id, to exactly the connections that are in the named session's room; the
\* sender is among them when it has joined that room.
C7_ChatEcho ==
    [][\A c \in Conns : \A sid \in EventSessionIds :
         HandleChatMessage(c, sid, UserOf(c))
         => \A d \in Conns :
                inbox'[d] = IF sid \in rooms[d]
                            THEN Append(inbox[d], ChatEvent(c, sid))
                            ELSE inbox[d]]_vars

\* a connection holds its own chat message, and so does another of the room
C7_Witness ==
    \E c \in Conns : \E d \in Conns \ {c} :
        /\ \E i \in 1..Len(inbox[c]) :
               inbox[c][i].type = "chat_message" /\ inbox[c][i].origin = c
        /\ \E i \in 1..Len(inbox[d]) :
               inbox[d][i].type = "chat_message" /\ inbox[d][i].origin = c

C9_HttpJoinFull ==
    [][\A u \in Users : \A sid \in SessionIds :
         ( /\ HttpJoin(u, sid)
           /\ active_sessions[sid].present
           /\ Len(active_sessions[sid].participants) >= active_sessions[sid].max_participants )
         => /\ http_resp' = [status |-> 400, error |-> "SESSION_FULL"]
            /\ active_sessions'[sid].participants = active_sessions[sid].participants]_vars

\* C10 (WebSocket join asymmetry): a join_session for an existing session that
\* is at or over max_participants puts the connection in the room, appends
\* the user to the participants unless already there, and is answered with
\* the session_state.
C10_WsJoinOverCapacity ==
    [][\A c \in Conns : \A sid \in SessionIds : \A u \in Users :
         ( /\ HandleJoinSession(c, sid, u)
           /\ active_sessions[sid].present
           /\ Len(active_sessions[sid].participants) >= active_sessions[sid].max_participants )
         => /\ sid \in rooms'[c]
            /\ active_sessions'[sid].participants =
                   IF InSeq(u, active_sessions[sid].participants)
                   THEN active_sessions[sid].participants
                   ELSE Append(active_sessions[sid].participants, u)
            /\ LastOf(inbox'[c]).type = "session_state"
            /\ LastOf(inbox'[c]).participants = active_sessions'[sid].participants]_vars

\* a session with more participants than max_participants and a connection
\* in its room
C10_Witness ==
    \E sid \in SessionIds : \E c \in Conns :
        /\ active_sessions[sid].present
        /\ active_sessions[sid].max_participants >= 1
        /\ Len(active_sessions[sid].participants) > active_sessions[sid].max_participants
        /\ sid \in rooms[c]

\* C11 as claimed (disconnect cleanup): when a connection that is in the room
\* of an existing session is closed, a user leaves the session's participants
\* and the connections that remain in the room are sent user_left with the
\* new participant count.
C11_DisconnectCleansUp ==
    [][\A c \in Conns : \A sid \in SessionIds :
         ( /\ sid \in rooms[c]
           /\ active_sessions[sid].present
           /\ HandleDisconnect(c) )
         => /\ Len(active_sessions'[sid].participants)
                   = Len(active_sessions[sid].participants) - 1
            /\ \A d \in Conns \ {c} : sid \in rooms[d] =>
                   /\ Len(inbox'[d]) = Len(inbox[d]) + 1
                   /\ LastOf(inbox'[d]).type = "user_left"
                   /\ LastOf(inbox'[d]).n = Len(active_sessions'[sid].participants)]_vars

\* C12 (empty update): a yjs_update event whose update is absent, an empty
\* byte string or an empty list changes nothing: no document is created or
\* merged into, last_updated stays, nothing is emitted.
C12_EmptyUpdateNoOp ==
    [][\A c \in Conns : \A sid \in EventSessionIds :
       \A w \in {NoneWire, BytesWire(<<>>), ListWire(<<>>)} :
         HandleYjsUpdate(c, sid, w)
         => /\ sm_sessions' = sm_sessions
            /\ inbox' = inbox
            /\ arrived' = arrived
            /\ ws_error' = "none"]_vars

\* a connected client, a session that has no document yet and another
\* connection in its room with room for an event: any merge, creation or
\* broadcast by the handler would show
C12_Witness ==
    \E c \in Conns : \E d \in Conns \ {c} : \E sid \in SessionIds :
        /\ c \in connected
        /\ ~sm_sessions[sid].present
        /\ sid \in rooms[c] /\ sid \in rooms[d]
        /\ inbox[d] = <<>>
        /\ OwnStructs(c) # {}

\* C13 as claimed (degrade-to-safe sync): a yjs_sync_step1 with a malformed
\* state vector, as a byte string or as a list of integers, is answered to
\* the sender with a yjs_sync_step2 that carries the full document state, and
\* the document is unchanged.
C13_MalformedVectorDegrades ==
    [][\A c \in Conns : \A sid \in SessionIds :
       \A w \in MalformedVectorInputs :
         HandleYjsSyncStep1(c, sid, w)
         => /\ ws_error' = "none"
            /\ Len(inbox'[c]) = Len(inbox[c]) + 1
            /\ LastOf(inbox'[c]).type = "yjs_sync_step2"
            /\ ToBytes(LastOf(inbox'[c]).update) = EncodeState(GetDoc(sm_sessions, sid))
            /\ GetDoc(sm_sessions', sid) = GetDoc(sm_sessions, sid)]_vars

\* C17 as claimed: a session_state event is only ever in flight to the
\* connection whose join_session produced it.
C17_SessionStateToJoinerOnly ==
    \A c \in Conns : \A i \in 1..Len(inbox[c]) :
        inbox[c][i].type = "session_state" => inbox[c][i].origin = c

\* C18 as claimed (leave): a POST /sessions/<id>/leave by a participant of an
\* existing session takes the user out of the participants and sends the
\* connections in the session's room user_left with the new participant
\* count.
C18_LeaveRemovesAndNotifies ==
    [][\A u \in Users : \A sid \in SessionIds :
         ( /\ active_sessions[sid].present
           /\ InSeq(u, active_sessions[sid].participants)
           /\ HttpLeave(u, sid) )
         => /\ ~InSeq(u, active_sessions'[sid].participants)
            /\ \A d \in Conns : sid \in rooms[d] =>
                   /\ Len(inbox'[d]) = Len(inbox[d]) + 1
                   /\ LastOf(inbox'[d]).type = "user_left"
                   /\ LastOf(inbox'[d]).n = Len(active_sessions'[sid].participants)]_vars

NotFound == [status |-> 404, error |-> "SESSION_NOT_FOUND"]

\* C19 as claimed: GET /sessions/<id>, the HTTP join and the HTTP leave of an
\* unknown session id answer 404 with the SESSION_NOT_FOUND error, and create
\* no session, no document and no event.
C19_UnknownSessionNotFound ==
    [][\A sid \in SessionIds : \A u \in Users :
         ( /\ ~active_sessions[sid].present
           /\ (GetSession(sid) \/ HttpJoin(u, sid) \/ HttpLeave(u, sid)) )
         => /\ http_resp' = NotFound
            /\ UNCHANGED <<active_sessions, sm_sessions, inbox>>]_vars

\* C20 (auto-create): a yjs_sync_step1 or a yjs_update that names a session
\* id with no document and no HTTP-created session does not fail: get_doc
\* creates an empty document for the id and the event is handled as for an
\* existing session (the reply is computed from, the update merged into, the
\* new document).
C20_AutoCreate ==
    [][\A c \in Conns : \A sid \in SessionIds :
         ~sm_sessions[sid].present =>
           /\ \A w \in VectorInputs(c) :
                HandleYjsSyncStep1(c, sid, w)
                => /\ ws_error' = "none"
                   /\ sm_sessions'[sid] = NewEntry
                   /\ Len(inbox'[c]) = Len(inbox[c]) + 1
                   /\ LastOf(inbox'[c]).type = "yjs_sync_step2"
                   /\ ToBytes(LastOf(inbox'[c]).update) = SyncStep2(EmptyDoc, Normalize(w))
           /\ \A x \in OwnStructs(c) :
              \A w \in {BytesWire(EncodeUpdate({x})), ListWire(EncodeUpdate({x}))} :
                HandleYjsUpdate(c, sid, w)
                => /\ ws_error' = "none"
                   /\ sm_sessions'[sid].present
                   /\ sm_sessions'[sid].doc = ApplyUpdate(EmptyDoc, ToBytes(w))
                   /\ sm_sessions'[sid].last_updated = 1
                   /\ \A d \in Conns \ {c} : sid \in rooms[d] =>
                          LastOf(inbox'[d]).type = "yjs_update"]_vars

\* a session that was never created over HTTP has a document with content
C20_Witness ==
    \E sid \in SessionIds :
        /\ ~active_sessions[sid].present
        /\ sm_sessions[sid].present
        /\ sm_sessions[sid].last_updated = 1
        /\ Content(sm_sessions[sid].doc) # {}

\* C14 (atomic get-or-create): however the threads' get_doc calls for a
\* session id interleave, one Y.YDoc is made for the id, every call returns
\* that document, and no later call makes another.
C14_AtomicGetOrCreate ==
    /\ \A sid \in SessionIds : created[sid] <= 1
    /\ \A sid \in SessionIds : sm_sessions[sid].present <=> created[sid] = 1
    /\ \A t \in Threads : thr[t].pc \notin {"idle", "gd_acquire", "gd_check", "gd_create", "gd_return"}
           => thr[t].doc = 1
    /\ \A t \in Threads : (thr[t].pc = "idle" /\ thr[t].op # "none") => thr[t].doc = 1

\* two threads called for the same id while it was unseen, and both have
\* returned from get_doc
C14_Witness ==
    \E t \in Threads : \E u \in Threads \ {t} :
        /\ thr[t].sid = thr[u].sid
        /\ thr[t].unseen /\ thr[u].unseen
        /\ thr[t].doc = 1 /\ thr[u].doc = 1

\* C15 as claimed: a thread that is at a statement which reads or changes a
\* session's document (the merge and the time stamp of process_update, the
\* encoding of handle_sync_step1 and get_document_state) holds the lock, so
\* no encoding runs while another thread is inside a merge.
C15_DocAccessUnderLock ==
    \A t \in Threads :
        thr[t].pc \in {"encode", "pu_apply", "pu_stamp"} => lock = t

\* C16 as claimed: while a thread is merging into the document of one
\* session, a thread that is about to enter get_doc or the merge for another
\* session does not have to wait.
C16_PerSessionExclusion ==
    \A t \in Threads : \A u \in Threads \ {t} :
        ( /\ thr[t].pc \in {"pu_apply", "pu_stamp"}
          /\ thr[u].pc \in {"gd_acquire", "pu_acquire"}
          /\ thr[u].sid # thr[t].sid )
        => LockFree(lock)

\* C21: a connection is in the room of at most one session at a time: once it
\* has joined session B it is no longer in session A's room, so A's broadcasts
\* no longer reach it.
C21_OneRoomPerConnection ==
    \A c \in Conns : Cardinality(rooms[c] \cap SessionIds) <= 1

\* C23 (join and leave are idempotent): a POST /sessions/<id>/join by a user
\* who is already a participant of the existing session succeeds again
\* (status 200) and leaves the participants as they are, whatever their
\* number; a POST /sessions/<id>/leave by a user who is not (or no longer) a
\* participant succeeds as well and changes nothing.
C23_JoinLeaveIdempotent ==
    [][\A u \in Users : \A sid \in SessionIds :
         /\ ( /\ active_sessions[sid].present
              /\ InSeq(u, active_sessions[sid].participants)
              /\ HttpJoin(u, sid) )
            => /\ http_resp'.status = 200
               /\ active_sessions'[sid].participants = active_sessions[sid].participants
         /\ ( /\ active_sessions[sid].present
              /\ ~InSeq(u, active_sessions[sid].participants)
              /\ HttpLeave(u, sid) )
            => /\ http_resp'.status = 200
               /\ active_sessions'[sid].participants = active_sessions[sid].participants]_vars

\* the yjs_update event for session sid with payload w, sent by c, has been
\* merged into the session's document and sent on, same bytes, to every
\* other connection in the room
MergedAndDelivered(c, sid, w) ==
    /\ ws_error' = "none"
    /\ sm_sessions'[sid].present
    /\ DecodeUpdate(ToBytes(w)) \subseteq
           sm_sessions'[sid].doc.structs \cup sm_sessions'[sid].doc.pending
    /\ \A d \in Conns \ {c} : sid \in rooms[d] =>
           /\ Len(inbox'[d]) = Len(inbox[d]) + 1
           /\ LastOf(inbox'[d]).type = "yjs_update"
           /\ LastOf(inbox'[d]).session_id = sid
           /\ ToBytes(LastOf(inbox'[d]).update) = ToBytes(w)

\* C24 as claimed (no update is dropped): every yjs_update event with a
\* non-empty payload is merged into the named session's document and
\* delivered, with the same bytes, to every other connection in the room.
C24_NoUpdateDropped ==
    [][\A c \in Conns : \A sid \in SessionIds :
       \A w \in UpdateInputs(c) \cup MalformedUpdateInputs :
         (~Falsy(w) /\ HandleYjsUpdate(c, sid, w)) => MergedAndDelivered(c, sid, w)]_vars

\* C24, amended: every yjs_update event whose non-empty payload decodes as an
\* update is merged into the named session's document and delivered, with
\* the same bytes, to every other connection in the room at that time.
C24_NoDecodableUpdateDropped ==
    [][\A c \in Conns : \A sid \in SessionIds :
       \A w \in UpdateInputs(c) \cup MalformedUpdateInputs :
         ( /\ ~Falsy(w) /\ ~BytesRaises(w)
           /\ ~ApplyRaises(ToBytes(w))
           /\ HandleYjsUpdate(c, sid, w) ) => MergedAndDelivered(c, sid, w)]_vars

\* an update of one connection is in the server's document and in flight to
\* another connection of the room
C24_Witness ==
    \E c \in Conns : \E d \in Conns \ {c} : \E sid \in SessionIds :
        /\ sid \in rooms[d]
        /\ inbox[d] # <<>>
        /\ LastOf(inbox[d]).type = "yjs_update"
        /\ LastOf(inbox[d]).origin = c
        /\ DecodeUpdate(ToBytes(LastOf(inbox[d]).update)) # {}
        /\ DecodeUpdate(ToBytes(LastOf(inbox[d]).update)) \subseteq sm_sessions[sid].doc.structs

\* C25 (merge precedes broadcast): every yjs_update broadcast a connection
\* has been sent carries an update that the session's document on the server
\* already contains; an update whose merge failed is never broadcast.
C25_MergePrecedesBroadcast ==
    \A d \in Conns : \A i \in 1..Len(inbox[d]) :
        inbox[d][i].type = "yjs_update" =>
            LET b == ToBytes(inbox[d][i].update)
                sid == inbox[d][i].session_id
            IN  /\ WellFormedUpdate(b)
                /\ sm_sessions[sid].present
                /\ DecodeUpdate(b) \subseteq
                       sm_sessions[sid].doc.structs \cup sm_sessions[sid].doc.pending

\* a broadcast is in flight in a session into which a merge has failed
C25_Witness ==
    /\ ws_error = "EncodingException"
    /\ \E d \in Conns :
          /\ inbox[d] # <<>>
          /\ LastOf(inbox[d]).type = "yjs_update"
          /\ DecodeUpdate(ToBytes(LastOf(inbox[d]).update)) # {}

C28_JoinThenSyncMissesNothing ==
    [][\A c \in Conns : \A sid \in SyncSessionIds :
         sid \in rooms[c] =>
           /\ \A w \in VectorInputs(c) :
                 HandleYjsSyncStep1(c, sid, w)
                 => /\ Len(inbox'[c]) = Len(inbox[c]) + 1
                    /\ LastOf(inbox'[c]).type = "yjs_sync_step2"
                    /\ arrived[sid] \subseteq
                          cdoc[c].structs \cup DecodeUpdate(ToBytes(LastOf(inbox'[c]).update))
           /\ \A d \in Conns \ {c} : \A w \in UpdateInputs(d) :
                 (~Falsy(w) /\ HandleYjsUpdate(d, sid, w))
                 => /\ Len(inbox'[c]) = Len(inbox[c]) + 1
                    /\ LastOf(inbox'[c]).type = "yjs_update"
                    /\ DecodeUpdate(ToBytes(w)) \subseteq arrived'[sid]
                    /\ ToBytes(LastOf(inbox'[c]).update) = ToBytes(w)]_vars

\* a connection that joined late holds, from its sync reply, an update it
\* was never broadcast, and a later update of the same author is on its way
\* to it as a broadcast
C28_Witness ==
    \E c \in Conns : \E d \in Conns \ {c} : \E sid \in SyncSessionIds :
        /\ sid \in rooms[c]
        /\ c \in missed[sid]
        /\ <<d, 0>> \in cdoc[c].structs
        /\ inbox[c] # <<>>
        /\ LastOf(inbox[c]).type = "yjs_update"
        /\ LastOf(inbox[c]).session_id = sid
        /\ DecodeUpdate(ToBytes(LastOf(inbox[c]).update)) = {<<d, 1>>}

\* the statements inside a `with self._lock` block
InsideLock == {"gd_check", "gd_create", "gd_return", "pu_apply", "pu_stamp"}
\* the statements that wait for the lock
AtAcquire == {"gd_acquire", "pu_acquire"}

\* C29 (deadlock freedom): no thread requests the lock while it holds it;
\* whoever holds the lock is inside a `with self._lock` block, which ends in
\* a release also when the merge raises; hence, whenever a call is under
\* way, some thread can take its next step, and every call runs to its end.
C29_DeadlockFree ==
    /\ \A t \in Threads : thr[t].pc \in AtAcquire => lock # t
    /\ lock # NoThread => thr[lock].pc \in InsideLock
    /\ (\E t \in Threads : thr[t].pc # "idle")
          => \E t \in Threads : /\ thr[t].pc # "idle"
                                /\ thr[t].pc \in AtAcquire => LockFree(lock)

\* after a merge that raised, one thread holds the lock and another waits
\* for it
C29_Witness ==
    /\ ws_error = "EncodingException"
    /\ \E t \in Threads : \E u \in Threads \ {t} :
          /\ lock = t
          /\ thr[u].pc \in AtAcquire

\* C22 (participants are unique): no user id is twice among a session's
\* participants, whatever the interleaving of create, join and leave.
C22_ParticipantsUnique ==
    \A sid \in SessionIds :
        LET q == active_sessions[sid].participants
        IN  \A i \in 1..Len(q) : \A j \in 1..Len(q) : q[i] = q[j] => i = j

\* C27 (rate limit): for every key, the calls made within any span of
\* `window` seconds that are let through to the view number at most
\* `requests`.
C27_RateLimit ==
    \A a \in Addrs : Len(admitted[a]) <= Requests

====
